---- MODULE Spec2Model ----
(***************************************************************************)
(* Model of the plan-execute-recover-verify loop of the Control agent.     *)
(* Three front ends share the loop: src/test.py ("test"),                  *)
(* src/console_test_backend.py ("console") and src/main.py ("main", the    *)
(* messaging variant).  One request is followed from the host loop to its  *)
(* result; the host loop then accepts the next request.                    *)
(***************************************************************************)
EXTENDS Integers, Sequences, FiniteSets, TLC

VARIABLES
    variant,            \* which front end runs
    GUI_AVAILABLE,      \* module flag set at import time
    model,              \* self.model: "client" or "none"
    pc,                 \* position of the host in the request
    initial_response,   \* status and type of the classification reply
    actions,            \* llm_response['actions'] of the classification
    retry_actions,      \* plan of the latest successful replan
    actions_to_execute, \* plan of the running attempt
    i,                  \* steps of the running attempt already executed
    step_results,       \* list of action results
    failed_steps,       \* list of failure records
    retry_count,        \* loop counter
    verification,       \* reply of the verification call
    result,             \* what the host receives for the request
    exit_reason,        \* how the while loop was left
    log,                \* boundary calls of the request, in order
    response_text,      \* send_to_llm taken alone: the text of a reply
    llm_response,       \* send_to_llm taken alone: what is parsed from it
    action,             \* execute_action taken alone: its argument
    action_result,      \* execute_action taken alone: what it returns
    collaborator,       \* execute_action taken alone: what its collaborator does
    agent,              \* the other fields of the agent object
    screenshot_path,    \* what the latest take_screenshot of the request returned
    message_data,       \* messaging variant: the message read by run()
    api_key,            \* messaging variant: self.api_key
    genai_api_key,      \* the key of the last genai.configure (process-wide)
    GEMINI_FREE_KEY,    \* the key in the environment of the process
    check_internet      \* messaging variant: what check_internet returns

vars == << variant, GUI_AVAILABLE, model, pc, initial_response, actions,
           retry_actions, actions_to_execute, i, step_results, failed_steps,
           retry_count, verification, result, exit_reason, log,
           response_text, llm_response, action, action_result, collaborator,
           agent, screenshot_path, message_data, api_key, genai_api_key,
           GEMINI_FREE_KEY, check_internet >>

\* ------------------------------------------------------------------ bounds
MaxPlanLen == 2

\* --------------------------------------------------------------- constants
\* the retry budget set one too high
max_retries_four == 3 + 1

max_retries == 3

Variants == {"test", "console", "main"}

\* ------------------------------------------------------------- plan values
\* An element of an actions list.  object = FALSE stands for a JSON value
\* that is not an object (a string, a number, null).
PlanKinds == {"click"}

Action(kind) == [object |-> TRUE, action |-> kind, parameters |-> "params"]

NotAnObject == [object |-> FALSE, action |-> "", parameters |-> ""]

PlanElements == {Action(k) : k \in PlanKinds} \cup {NotAnObject}

RECURSIVE SeqsUpTo(_, _)
SeqsUpTo(S, n) ==
    IF n = 0 THEN {<< >>}
    ELSE LET shorter == SeqsUpTo(S, n - 1)
         IN  shorter \cup {Append(s, e) : s \in {t \in shorter : Len(t) = n - 1}, e \in S}

Plans == SeqsUpTo(PlanElements, MaxPlanLen)

\* Value of a local variable that has not been assigned yet.
Unbound == << [object |-> FALSE, action |-> "<unbound>", parameters |-> ""] >>

\* ---------------------------------------------------------------- replies
\* What model.generate_content gives back: an exception, text without any
\* brace, text whose extracted span is not JSON, JSON that is not an object,
\* or a JSON object.
StatusValues == {"absent", "error", "success", "partial", "failed", "other"}
TypeValues == {"absent", "question", "task", "other"}
CompletedValues == {"absent", "true", "false"}

\* A plan-shaped object (what the classification and replan prompts ask
\* for) or a verdict-shaped object (what the verification prompt asks for).
\* Any of them can come back from any call.
PlanReplies ==
    {[status |-> s, type |-> t, actions |-> a, completed |-> "absent"] :
        s \in {"absent", "error"}, t \in TypeValues \ {"task"}, a \in {<< >>}}
    \cup {[status |-> s, type |-> "task", actions |-> a, completed |-> "absent"] :
        s \in {"absent", "error"}, a \in Plans}

VerdictReplies ==
    {[status |-> s, type |-> "question", actions |-> << >>, completed |-> c] :
        s \in StatusValues, c \in CompletedValues}

ReplyObjects == PlanReplies \cup VerdictReplies

NoObject == [status |-> "absent", type |-> "absent", actions |-> << >>,
             completed |-> "absent"]

RawReplies ==
    {[shape |-> s, obj |-> NoObject] : s \in {"raise", "nojson", "badjson", "notdict"}}
    \cup {[shape |-> "object", obj |-> o] : o \in ReplyObjects}

\* {"status": "error", "actions": []}
ErrorReply == [status |-> "error", type |-> "absent", actions |-> << >>,
               completed |-> "absent"]

\* send_to_llm: no model, an exception of the call, no JSON found, invalid
\* JSON and a JSON value without .get all end in the except branch.
send_to_llm(m, raw) ==
    IF m = "none" THEN ErrorReply
    ELSE IF raw.shape = "object" THEN raw.obj
    ELSE ErrorReply

\* ------------------------------------------------------------ the executor
GuiKinds == {"click", "double_click", "mouse_move", "scroll", "type", "key_press"}

Res(ok, msg, kind) == [success |-> ok, message |-> msg, action |-> kind]

\* the slice [:200] of the captured output
OutputLimit == 200

\* the length of a text of n characters cut without any limit
Truncated_Whole(n) == n

\* the length of text[:200] for a text of n characters
Truncated(n) == IF n > OutputLimit THEN OutputLimit ELSE n

\* output.stdout[:200] if output.stdout else output.stderr[:200]
terminal_message(run) ==
    IF run.stdout > 0 THEN [from |-> "stdout", len |-> Truncated(run.stdout)]
    ELSE [from |-> "stderr", len |-> Truncated(run.stderr)]

\* what subprocess.run(command, timeout=10) can do: raise TimeoutExpired, or
\* return an exit code and the two captured texts (their lengths)
OutputLengths == {0, 1, OutputLimit - 1, OutputLimit, OutputLimit + 1, 2 * OutputLimit}
TerminalRuns ==
    {[timeout |-> TRUE, returncode |-> 0, stdout |-> 0, stderr |-> 0]}
    \cup [timeout : {FALSE}, returncode : {0, 1}, stdout : OutputLengths,
          stderr : OutputLengths]

\* execute_action: env is what the collaborator does ("ok", "fail": it
\* reports failure, "raise": it throws).  Messages are "" (empty), "text"
\* (a descriptive text), "exc" (str(e)), "path"; the message of a terminal
\* action that ran is where the text comes from and its length.  The parameters
\* are "params" (a mapping with usable values), "not_a_mapping" (its .get
\* raises inside the try), "method_terminal" and "method_other" (a mapping
\* that names that focus method).  The kind "<not_a_string>" has no .lower().
execute_action(v, gui, a, env) ==
    LET k == a.action
        nomap == a.parameters = "not_a_mapping"
        method == IF a.parameters = "method_terminal" THEN "terminal"
                  ELSE IF a.parameters = "method_other" THEN "other"
                  ELSE IF v = "test" THEN "search" ELSE "alt_tab"
    IN
    IF k = "<not_a_string>" THEN Res(FALSE, "exc", k)
    ELSE IF k = "screenshot"
        THEN IF env = "ok" THEN Res(TRUE, "path", k) ELSE Res(FALSE, "", k)
    ELSE IF k \in GuiKinds
        THEN IF ~gui THEN Res(FALSE, "", k)
             ELSE IF nomap \/ env = "raise" THEN Res(FALSE, "exc", k)
             ELSE Res(TRUE, "text", k)
    ELSE IF k = "terminal"
        THEN IF nomap \/ env.timeout THEN Res(FALSE, "exc", k)
             ELSE Res(env.returncode = 0, terminal_message(env), k)
    ELSE IF k = "wait"
        THEN IF nomap \/ env = "raise" THEN Res(FALSE, "exc", k)
             ELSE Res(TRUE, "text", k)
    ELSE IF k = "focus_window"
        THEN IF ~gui THEN Res(FALSE, "", k)
             ELSE IF nomap THEN Res(FALSE, "exc", k)
             ELSE IF method = "other" \/ (method = "terminal" /\ v # "test")
                  THEN Res(FALSE, "text", k)
             ELSE IF env = "ok" THEN Res(TRUE, "text", k)
             ELSE Res(FALSE, "exc", k)
    ELSE IF k = "find_and_click" /\ v = "test"
        THEN IF ~gui THEN Res(FALSE, "", k)
             ELSE IF nomap THEN Res(FALSE, "exc", k)
             ELSE Res(FALSE, "text", k)
    ELSE Res(FALSE, "text", k)

\* What the environment can do to an action of the given kind.
EnvFor(a) ==
    IF a.action \in GuiKinds \cup {"focus_window"} THEN {"ok", "raise"}
    ELSE IF a.action \in {"screenshot"} THEN {"ok", "fail"}
    ELSE IF a.action = "terminal" THEN TerminalRuns
    ELSE {"ok"}

\* ----------------------------------------------------------------- the log
Ev(e) == [ev |-> e, step |-> 0, ok |-> TRUE, len |-> 0]
ExecEv(n, ok) == [ev |-> "exec", step |-> n, ok |-> ok, len |-> 0]
\* the head of round n of the while loop, with the length of the plan it runs
AttemptEv(n, plan) == [ev |-> "attempt", step |-> n, ok |-> TRUE, len |-> Len(plan)]
\* the verification call; ok says whether a JSON object was parsed from its reply
VerifyEv(raw) == [ev |-> "verify", step |-> 0, ok |-> raw.shape = "object", len |-> 0]
\* the recovery call; ok says whether its reply is a usable plan of a task
\* and, when it is, the length of that plan
ReplanEv(r) ==
    [ev |-> "replan", step |-> 0, ok |-> r.status # "error" /\ r.type = "task",
     len |-> IF r.status # "error" /\ r.type = "task" THEN Len(r.actions) ELSE 0]

\* failure record appended for a failed step
FailureRecord(v, n, res, a) ==
    [step |-> n, action |-> res.action, message |-> res.message,
     parameters |-> IF v = "test" THEN a.parameters ELSE "<none>"]

NoVerification == [completed |-> "absent", status |-> "absent"]
NoResult == [type |-> "none", note |-> ""]
NoResponse == [status |-> "absent", type |-> "absent"]
Pending == [state |-> "pending", value |-> << >>]
NoAction == [object |-> TRUE, action |-> "<none>", parameters |-> "<none>"]
NoActionResult == [success |-> FALSE, message |-> "<none>", action |-> "<none>"]
\* the fields set by __init__
NewAgent == [running |-> TRUE, execution_history |-> << >>, last_screenshot |-> "none"]

\* take_screenshot that stores whatever the capture gave
take_screenshot_AlwaysStores(v, shot, ag) ==
    IF v = "test" THEN [ag EXCEPT !.last_screenshot = shot] ELSE ag

\* take_screenshot: only src/test.py keeps the path, and only of a capture
\* that succeeded
take_screenshot(v, shot, ag) ==
    IF v = "test" /\ shot # "" THEN [ag EXCEPT !.last_screenshot = shot] ELSE ag

\* what execute_action does to the fields of the agent
after_action(v, a, env, ag) ==
    IF a.action = "screenshot"
    THEN take_screenshot(v, IF env = "ok" THEN "path" ELSE "", ag)
    ELSE ag

NoMessage == [shape |-> "dict", type |-> "<none>", key |-> "absent"]

Init ==
    /\ variant \in Variants
    /\ GUI_AVAILABLE \in BOOLEAN
    /\ model \in {"client", "none"}
    /\ pc = "idle"
    /\ initial_response = NoResponse
    /\ actions = << >>
    /\ retry_actions = Unbound
    /\ actions_to_execute = << >>
    /\ i = 0
    /\ step_results = << >>
    /\ failed_steps = << >>
    /\ retry_count = 0
    /\ verification = NoVerification
    /\ result = NoResult
    /\ exit_reason = "none"
    /\ log = << >>
    /\ response_text = << >>
    /\ llm_response = Pending
    /\ action = NoAction
    /\ action_result = NoActionResult
    /\ collaborator = "ok"
    /\ agent = NewAgent
    /\ screenshot_path = "none"
    /\ message_data = NoMessage
    /\ api_key = "env"
    /\ genai_api_key = "env"
    /\ GEMINI_FREE_KEY = "env"
    /\ check_internet = TRUE

\* the variables of send_to_llm and execute_action taken alone
Units == << response_text, llm_response, action, action_result, collaborator >>
\* the variables of process_message
Messaging == << message_data, api_key, genai_api_key, GEMINI_FREE_KEY, check_internet >>

Config == << variant, GUI_AVAILABLE, model >>
Run == << initial_response, actions, retry_actions, actions_to_execute, i,
          step_results, failed_steps, retry_count, verification, exit_reason >>

\* Request that gives up on a failed capture in the messaging variant too
Request_AbandonsInEveryVariant ==
    /\ pc = "idle"
    /\ IF variant = "main" /\ model = "none"
       THEN /\ pc' = "done"
            /\ result' = [type |-> "error", note |-> "AI service is not available"]
            /\ log' = log
            /\ agent' = agent
            /\ screenshot_path' = screenshot_path
       ELSE \E shot \in {"", "path"} :
            /\ screenshot_path' = shot
            /\ log' = Append(log, Ev("capture"))
            /\ agent' = take_screenshot(variant, shot, agent)
            /\ IF shot = ""
               THEN /\ pc' = "done"
                    /\ result' = [type |-> "abandoned", note |-> "Cannot capture initial screenshot"]
               ELSE /\ pc' = "classify"
                    /\ result' = result
    /\ UNCHANGED << Config, Units, Messaging, Run >>

\* execute_task / handle_user_message up to the classification call.
Request ==
    /\ pc = "idle"
    /\ IF variant = "main" /\ model = "none"
       THEN /\ pc' = "done"
            /\ result' = [type |-> "error", note |-> "AI service is not available"]
            /\ log' = log
            /\ agent' = agent
            /\ screenshot_path' = screenshot_path
       ELSE \E shot \in {"", "path"} :
            /\ screenshot_path' = shot
            /\ log' = Append(log, Ev("capture"))
            /\ agent' = take_screenshot(variant, shot, agent)
            /\ IF variant # "main" /\ shot = ""
               THEN /\ pc' = "done"
                    /\ result' = [type |-> "abandoned", note |-> "Cannot capture initial screenshot"]
               ELSE /\ pc' = "classify"
                    /\ result' = result
    /\ UNCHANGED << Config, Units, Messaging, Run >>

\* Classify without the return of the question branch
Classify_QuestionFallsThrough ==
    /\ pc = "classify"
    /\ \E raw \in RawReplies :
        LET r == send_to_llm(model, raw) IN
        /\ log' = IF model = "none" THEN log ELSE Append(log, Ev("classify"))
        /\ initial_response' = [status |-> r.status, type |-> r.type]
        /\ IF r.status = "error"
           THEN /\ pc' = "done"
                /\ result' = [type |-> "error", note |-> "Failed to process request"]
                /\ actions' = actions
           ELSE IF FALSE
           THEN /\ pc' = "done"
                /\ result' = [type |-> IF variant = "main" THEN "ai_response" ELSE "answer",
                              note |-> "response"]
                /\ actions' = actions
           ELSE IF r.type \in {"question", "task"}
           THEN /\ pc' = "loop"
                /\ result' = result
                /\ actions' = r.actions
           ELSE /\ pc' = "done"
                /\ result' = [type |-> "error", note |-> "Unknown request type"]
                /\ actions' = actions
    /\ UNCHANGED << Config, Units, Messaging, agent, screenshot_path, retry_actions, actions_to_execute, i, step_results,
                    failed_steps, retry_count, verification, exit_reason >>


\* Classify without the test of the error status
Classify_NoStatusCheck ==
    /\ pc = "classify"
    /\ \E raw \in RawReplies :
        LET r == send_to_llm(model, raw) IN
        /\ log' = IF model = "none" THEN log ELSE Append(log, Ev("classify"))
        /\ initial_response' = [status |-> r.status, type |-> r.type]
        /\ IF FALSE
           THEN /\ pc' = "done"
                /\ result' = [type |-> "error", note |-> "Failed to process request"]
                /\ actions' = actions
           ELSE IF r.type = "question"
           THEN /\ pc' = "done"
                /\ result' = [type |-> IF variant = "main" THEN "ai_response" ELSE "answer",
                              note |-> "response"]
                /\ actions' = actions
           ELSE IF r.type = "task"
           THEN /\ pc' = "loop"
                /\ result' = result
                /\ actions' = r.actions
           ELSE /\ pc' = "done"
                /\ result' = [type |-> "error", note |-> "Unknown request type"]
                /\ actions' = actions
    /\ UNCHANGED << Config, Units, Messaging, agent, screenshot_path, retry_actions, actions_to_execute, i, step_results,
                    failed_steps, retry_count, verification, exit_reason >>


\* The classification call and the branch on its reply.
Classify ==
    /\ pc = "classify"
    /\ \E raw \in RawReplies :
        LET r == send_to_llm(model, raw) IN
        /\ log' = IF model = "none" THEN log ELSE Append(log, Ev("classify"))
        /\ initial_response' = [status |-> r.status, type |-> r.type]
        /\ IF r.status = "error"
           THEN /\ pc' = "done"
                /\ result' = [type |-> "error", note |-> "Failed to process request"]
                /\ actions' = actions
           ELSE IF r.type = "question"
           THEN /\ pc' = "done"
                /\ result' = [type |-> IF variant = "main" THEN "ai_response" ELSE "answer",
                              note |-> "response"]
                /\ actions' = actions
           ELSE IF r.type = "task"
           THEN /\ pc' = "loop"
                /\ result' = result
                /\ actions' = r.actions
           ELSE /\ pc' = "done"
                /\ result' = [type |-> "error", note |-> "Unknown request type"]
                /\ actions' = actions
    /\ UNCHANGED << Config, Units, Messaging, agent, screenshot_path, retry_actions, actions_to_execute, i, step_results,
                    failed_steps, retry_count, verification, exit_reason >>

\* BeginAttempt with the loop condition off by one
BeginAttempt_ShortLoop ==
    /\ pc = "loop"
    /\ IF retry_count < max_retries - 1
       THEN /\ pc' = "exec"
            /\ i' = 0
            /\ log' = Append(log, AttemptEv(retry_count,
                                IF retry_count = 0 THEN actions ELSE retry_actions))
            /\ exit_reason' = exit_reason
            /\ IF retry_count = 0
               THEN /\ actions_to_execute' = actions
                    /\ step_results' = << >>
                    /\ failed_steps' = << >>
               ELSE /\ actions_to_execute' = retry_actions
                    /\ UNCHANGED << step_results, failed_steps >>
       ELSE /\ pc' = "verify"
            /\ exit_reason' = "loop_condition"
            /\ UNCHANGED << i, log, actions_to_execute, step_results, failed_steps >>
    /\ UNCHANGED << Config, Units, Messaging, agent, screenshot_path, initial_response, actions, retry_actions, retry_count,
                    verification, result >>


\* BeginAttempt that empties both lists at the head of every round
BeginAttempt_ResetEachRound ==
    /\ pc = "loop"
    /\ IF retry_count < max_retries
       THEN /\ pc' = "exec"
            /\ i' = 0
            /\ log' = Append(log, AttemptEv(retry_count,
                                IF retry_count = 0 THEN actions ELSE retry_actions))
            /\ exit_reason' = exit_reason
            /\ IF retry_count = 0
               THEN /\ actions_to_execute' = actions
                    /\ step_results' = << >>
                    /\ failed_steps' = << >>
               ELSE /\ actions_to_execute' = retry_actions
                    /\ step_results' = << >>
                    /\ failed_steps' = << >>
       ELSE /\ pc' = "verify"
            /\ exit_reason' = "loop_condition"
            /\ UNCHANGED << i, log, actions_to_execute, step_results, failed_steps >>
    /\ UNCHANGED << Config, Units, Messaging, agent, screenshot_path, initial_response, actions, retry_actions, retry_count,
                    verification, result >>


\* BeginAttempt that runs the initial plan again in every round
BeginAttempt_InitialPlanAgain ==
    /\ pc = "loop"
    /\ IF retry_count < max_retries
       THEN /\ pc' = "exec"
            /\ i' = 0
            /\ log' = Append(log, AttemptEv(retry_count,
                                IF retry_count = 0 THEN actions ELSE retry_actions))
            /\ exit_reason' = exit_reason
            /\ IF retry_count = 0
               THEN /\ actions_to_execute' = actions
                    /\ step_results' = << >>
                    /\ failed_steps' = << >>
               ELSE /\ actions_to_execute' = actions
                    /\ UNCHANGED << step_results, failed_steps >>
       ELSE /\ pc' = "verify"
            /\ exit_reason' = "loop_condition"
            /\ UNCHANGED << i, log, actions_to_execute, step_results, failed_steps >>
    /\ UNCHANGED << Config, Units, Messaging, agent, screenshot_path, initial_response, actions, retry_actions, retry_count,
                    verification, result >>


\* Head of the while loop: the plan of the round is selected.
BeginAttempt ==
    /\ pc = "loop"
    /\ IF retry_count < max_retries
       THEN /\ pc' = "exec"
            /\ i' = 0
            /\ log' = Append(log, AttemptEv(retry_count,
                                IF retry_count = 0 THEN actions ELSE retry_actions))
            /\ exit_reason' = exit_reason
            /\ IF retry_count = 0
               THEN /\ actions_to_execute' = actions
                    /\ step_results' = << >>
                    /\ failed_steps' = << >>
               ELSE /\ actions_to_execute' = retry_actions
                    /\ UNCHANGED << step_results, failed_steps >>
       ELSE /\ pc' = "verify"
            /\ exit_reason' = "loop_condition"
            /\ UNCHANGED << i, log, actions_to_execute, step_results, failed_steps >>
    /\ UNCHANGED << Config, Units, Messaging, agent, screenshot_path, initial_response, actions, retry_actions, retry_count,
                    verification, result >>

\* ExecuteStep that skips the delay after an action that failed
ExecuteStep_DelayOnSuccessOnly ==
    /\ pc = "exec"
    /\ i < Len(actions_to_execute)
    /\ LET a == actions_to_execute[i + 1] IN
       IF ~a.object
       THEN /\ pc' = "done"
            /\ exit_reason' = "exception"
            /\ result' = [type |-> IF variant = "main" THEN "error" ELSE "host_error",
                          note |-> "exception"]
            /\ log' = Append(log, Ev("raise"))
            /\ UNCHANGED << i, step_results, failed_steps, agent >>
       ELSE \E env \in EnvFor(a) :
            LET res == execute_action(variant, GUI_AVAILABLE, a, env) IN
            /\ agent' = after_action(variant, a, env, agent)
            /\ step_results' = Append(step_results, res)
            /\ failed_steps' = IF res.success THEN failed_steps
                               ELSE Append(failed_steps, FailureRecord(variant, i + 1, res, a))
            /\ i' = i + 1
            /\ log' = log \o << ExecEv(i + 1, res.success) >>
                          \o (IF res.success THEN << Ev("delay") >> ELSE << >>)
            /\ UNCHANGED << pc, exit_reason, result >>
    /\ UNCHANGED << Config, Units, Messaging, screenshot_path, initial_response, actions, retry_actions,
                    actions_to_execute, retry_count, verification >>

\* ExecuteStep that goes on to the next action before the result is recorded
ExecuteStep_ResultNotAwaited ==
    /\ pc = "exec"
    /\ i < Len(actions_to_execute)
    /\ LET a == actions_to_execute[i + 1] IN
       IF ~a.object
       THEN /\ pc' = "done"
            /\ exit_reason' = "exception"
            /\ result' = [type |-> IF variant = "main" THEN "error" ELSE "host_error",
                          note |-> "exception"]
            /\ log' = Append(log, Ev("raise"))
            /\ UNCHANGED << i, step_results, failed_steps, agent >>
       ELSE \E env \in EnvFor(a) :
            LET res == execute_action(variant, GUI_AVAILABLE, a, env) IN
            /\ agent' = after_action(variant, a, env, agent)
            /\ step_results' = step_results
            /\ failed_steps' = IF res.success THEN failed_steps
                               ELSE Append(failed_steps, FailureRecord(variant, i + 1, res, a))
            /\ i' = i + 1
            /\ log' = log \o << ExecEv(i + 1, res.success), Ev("delay") >>
            /\ UNCHANGED << pc, exit_reason, result >>
    /\ UNCHANGED << Config, Units, Messaging, screenshot_path, initial_response, actions, retry_actions,
                    actions_to_execute, retry_count, verification >>


\* One iteration of the for loop: the action is executed, its result is
\* appended, a failure record is appended when it failed, then the delay.
\* An element that is not an object has no .get: the exception leaves the
\* loop and is caught by the host (run_console_loop, handle_user_message).
ExecuteStep ==
    /\ pc = "exec"
    /\ i < Len(actions_to_execute)
    /\ LET a == actions_to_execute[i + 1] IN
       IF ~a.object
       THEN /\ pc' = "done"
            /\ exit_reason' = "exception"
            /\ result' = [type |-> IF variant = "main" THEN "error" ELSE "host_error",
                          note |-> "exception"]
            /\ log' = Append(log, Ev("raise"))
            /\ UNCHANGED << i, step_results, failed_steps, agent >>
       ELSE \E env \in EnvFor(a) :
            LET res == execute_action(variant, GUI_AVAILABLE, a, env) IN
            /\ agent' = after_action(variant, a, env, agent)
            /\ step_results' = Append(step_results, res)
            /\ failed_steps' = IF res.success THEN failed_steps
                               ELSE Append(failed_steps, FailureRecord(variant, i + 1, res, a))
            /\ i' = i + 1
            /\ log' = log \o << ExecEv(i + 1, res.success), Ev("delay") >>
            /\ UNCHANGED << pc, exit_reason, result >>
    /\ UNCHANGED << Config, Units, Messaging, screenshot_path, initial_response, actions, retry_actions,
                    actions_to_execute, retry_count, verification >>

\* EndAttempt with the budget test off by one
EndAttempt_OffByOne ==
    /\ pc = "exec"
    /\ i = Len(actions_to_execute)
    /\ IF failed_steps = << >>
       THEN pc' = "verify" /\ exit_reason' = "succeeded"
       ELSE IF retry_count < max_retries
       THEN pc' = "replan" /\ exit_reason' = exit_reason
       ELSE pc' = "verify" /\ exit_reason' = "budget"
    /\ UNCHANGED << Config, Units, Messaging, agent, screenshot_path, initial_response, actions, retry_actions,
                    actions_to_execute, i, step_results, failed_steps, retry_count,
                    verification, result, log >>


\* EndAttempt without the exit on an empty failure list
EndAttempt_NoSuccessExit ==
    /\ pc = "exec"
    /\ i = Len(actions_to_execute)
    /\ IF FALSE
       THEN pc' = "verify" /\ exit_reason' = "succeeded"
       ELSE IF retry_count < max_retries - 1
       THEN pc' = "replan" /\ exit_reason' = exit_reason
       ELSE pc' = "verify" /\ exit_reason' = "budget"
    /\ UNCHANGED << Config, Units, Messaging, agent, screenshot_path, initial_response, actions, retry_actions,
                    actions_to_execute, i, step_results, failed_steps, retry_count,
                    verification, result, log >>


\* After the for loop: success, another round, or the retry budget is used up.
EndAttempt ==
    /\ pc = "exec"
    /\ i = Len(actions_to_execute)
    /\ IF failed_steps = << >>
       THEN pc' = "verify" /\ exit_reason' = "succeeded"
       ELSE IF retry_count < max_retries - 1
       THEN pc' = "replan" /\ exit_reason' = exit_reason
       ELSE pc' = "verify" /\ exit_reason' = "budget"
    /\ UNCHANGED << Config, Units, Messaging, agent, screenshot_path, initial_response, actions, retry_actions,
                    actions_to_execute, i, step_results, failed_steps, retry_count,
                    verification, result, log >>

\* Replan that takes every reply that is not error-shaped as a plan
Replan_AnyReplyIsAPlan ==
    /\ pc = "replan"
    /\ \E raw \in RawReplies, shot \in {"", "path"} :
        LET r == send_to_llm(model, raw) IN
        /\ agent' = take_screenshot(variant, shot, agent)
        /\ screenshot_path' = shot
        /\ log' = log \o << Ev("capture") >>
                      \o (IF model = "none" THEN << >> ELSE << ReplanEv(r) >>)
        /\ IF r.status # "error"
           THEN /\ retry_actions' = r.actions
                /\ retry_count' = retry_count + 1
                /\ pc' = "loop"
                /\ exit_reason' = exit_reason
           ELSE /\ pc' = "verify"
                /\ exit_reason' = "replan_failed"
                /\ UNCHANGED << retry_actions, retry_count >>
    /\ UNCHANGED << Config, Units, Messaging, initial_response, actions, actions_to_execute, i,
                    step_results, failed_steps, verification, result >>


\* Replan that gives up without the model call when the capture failed
Replan_NeedsImage ==
    /\ pc = "replan"
    /\ \E raw \in RawReplies, shot \in {"", "path"} :
        LET r == send_to_llm(model, raw) IN
        /\ agent' = take_screenshot(variant, shot, agent)
        /\ screenshot_path' = shot
        /\ log' = log \o << Ev("capture") >>
                      \o (IF model = "none" \/ shot = "" THEN << >> ELSE << ReplanEv(r) >>)
        /\ IF shot # "" /\ r.status # "error" /\ r.type = "task"
           THEN /\ retry_actions' = r.actions
                /\ retry_count' = retry_count + 1
                /\ pc' = "loop"
                /\ exit_reason' = exit_reason
           ELSE /\ pc' = "verify"
                /\ exit_reason' = "replan_failed"
                /\ UNCHANGED << retry_actions, retry_count >>
    /\ UNCHANGED << Config, Units, Messaging, initial_response, actions, actions_to_execute, i,
                    step_results, failed_steps, verification, result >>


\* Replan that sends the recovery prompt a second time when the reply is unusable
Replan_AsksAgain ==
    /\ pc = "replan"
    /\ \E raw \in RawReplies, shot \in {"", "path"} :
        LET r == send_to_llm(model, raw) IN
        /\ agent' = take_screenshot(variant, shot, agent)
        /\ screenshot_path' = shot
        /\ log' = log \o << Ev("capture") >>
                      \o (IF model = "none" THEN << >>
                          ELSE IF r.status # "error" /\ r.type = "task" THEN << ReplanEv(r) >>
                          ELSE << ReplanEv(r), ReplanEv(r) >>)
        /\ IF r.status # "error" /\ r.type = "task"
           THEN /\ retry_actions' = r.actions
                /\ retry_count' = retry_count + 1
                /\ pc' = "loop"
                /\ exit_reason' = exit_reason
           ELSE /\ pc' = "verify"
                /\ exit_reason' = "replan_failed"
                /\ UNCHANGED << retry_actions, retry_count >>
    /\ UNCHANGED << Config, Units, Messaging, initial_response, actions, actions_to_execute, i,
                    step_results, failed_steps, verification, result >>

\* The recovery branch: a capture, the model call with the retry notice and
\* the branch on its reply.
Replan ==
    /\ pc = "replan"
    /\ \E raw \in RawReplies, shot \in {"", "path"} :
        LET r == send_to_llm(model, raw) IN
        /\ agent' = take_screenshot(variant, shot, agent)
        /\ screenshot_path' = shot
        /\ log' = log \o << Ev("capture") >>
                      \o (IF model = "none" THEN << >> ELSE << ReplanEv(r) >>)
        /\ IF r.status # "error" /\ r.type = "task"
           THEN /\ retry_actions' = r.actions
                /\ retry_count' = retry_count + 1
                /\ pc' = "loop"
                /\ exit_reason' = exit_reason
           ELSE /\ pc' = "verify"
                /\ exit_reason' = "replan_failed"
                /\ UNCHANGED << retry_actions, retry_count >>
    /\ UNCHANGED << Config, Units, Messaging, initial_response, actions, actions_to_execute, i,
                    step_results, failed_steps, verification, result >>

\* Verify that reports a run that did not end as succeeded as an error
Verify_ExhaustedIsFailure ==
    /\ pc = "verify"
    /\ \E raw \in RawReplies, shot \in {"", "path"} :
        LET r == send_to_llm(model, raw) IN
        /\ agent' = take_screenshot(variant, shot, agent)
        /\ screenshot_path' = shot
        /\ log' = log \o << Ev("capture") >>
                      \o (IF model = "none" THEN << >> ELSE << VerifyEv(raw) >>)
        /\ verification' = [completed |-> r.completed, status |-> r.status]
        /\ result' = IF variant = "main"
                     THEN IF r.completed = "true" /\ exit_reason = "succeeded"
                          THEN [type |-> "ai_response", note |-> "Task completed successfully!"]
                          ELSE [type |-> "error", note |-> "Task could not be completed"]
                     ELSE [type |-> "summary", note |-> ""]
    /\ pc' = "done"
    /\ UNCHANGED << Config, Units, Messaging, initial_response, actions, retry_actions,
                    actions_to_execute, i, step_results, failed_steps, retry_count,
                    exit_reason >>

\* The final capture, the verification call, the summary and the result.
Verify ==
    /\ pc = "verify"
    /\ \E raw \in RawReplies, shot \in {"", "path"} :
        LET r == send_to_llm(model, raw) IN
        /\ agent' = take_screenshot(variant, shot, agent)
        /\ screenshot_path' = shot
        /\ log' = log \o << Ev("capture") >>
                      \o (IF model = "none" THEN << >> ELSE << VerifyEv(raw) >>)
        /\ verification' = [completed |-> r.completed, status |-> r.status]
        /\ result' = IF variant = "main"
                     THEN IF r.completed = "true"
                          THEN [type |-> "ai_response", note |-> "Task completed successfully!"]
                          ELSE [type |-> "error", note |-> "Task could not be completed"]
                     ELSE [type |-> "summary", note |-> ""]
    /\ pc' = "done"
    /\ UNCHANGED << Config, Units, Messaging, initial_response, actions, retry_actions,
                    actions_to_execute, i, step_results, failed_steps, retry_count,
                    exit_reason >>

\* The host loop reads the next request.
NextRequest ==
    /\ pc = "done"
    /\ pc' = "idle"
    /\ initial_response' = NoResponse
    /\ actions' = << >>
    /\ retry_actions' = Unbound
    /\ actions_to_execute' = << >>
    /\ i' = 0
    /\ step_results' = << >>
    /\ failed_steps' = << >>
    /\ retry_count' = 0
    /\ verification' = NoVerification
    /\ result' = NoResult
    /\ exit_reason' = "none"
    /\ log' = << >>
    /\ screenshot_path' = "none"
    /\ UNCHANGED << Config, Units, Messaging, agent >>

Next ==
    \/ Request
    \/ Classify
    \/ BeginAttempt
    \/ ExecuteStep
    \/ EndAttempt
    \/ Replan
    \/ Verify
    \/ NextRequest

Spec == Init /\ [][Next]_vars

\* The steps of one task run.  The process is single-threaded and each step
\* is a call that returns, so a run that can take a step takes one; the next
\* request waits for a line of input and is under no such condition.
RunStep ==
    \/ Classify
    \/ BeginAttempt
    \/ ExecuteStep
    \/ EndAttempt
    \/ Replan
    \/ Verify

SpecLive == Init /\ [][Next]_vars /\ WF_vars(RunStep)

\* ------------------------------------------------ what a state's log says
IsAttempt(e) == e.ev = "attempt"
IsExec(e) == e.ev = "exec"
IsModelCall(e) == e.ev \in {"classify", "replan", "verify"}

Count(e) == Cardinality({k \in DOMAIN log : log[k].ev = e})
Attempts == Count("attempt")
Execs == Count("exec")
Replans == Count("replan")
Verifies == Count("verify")
Raised == Count("raise") > 0

\* names of the model calls of the request, in order
ModelCalls == [k \in DOMAIN SelectSeq(log, IsModelCall) |-> SelectSeq(log, IsModelCall)[k].ev]

\* position in the log of the marker of attempt n (0 when it has not started)
AttemptAt(n) ==
    LET at == {k \in DOMAIN log : log[k].ev = "attempt" /\ log[k].step = n}
    IN  IF at = {} THEN 0 ELSE CHOOSE k \in at : TRUE

\* last position of the log that belongs to attempt n
AttemptEnd(n) ==
    LET next == AttemptAt(n + 1) IN IF next > 0 THEN next - 1 ELSE Len(log)

\* failed executions of attempt n
OwnFailures(n) ==
    LET from == AttemptAt(n)
        to == AttemptEnd(n)
    IN  IF from = 0 THEN 0
        ELSE Cardinality({k \in from..to : log[k].ev = "exec" /\ ~log[k].ok})

\* executions of attempt n
OwnExecs(n) ==
    LET from == AttemptAt(n)
        to == AttemptEnd(n)
    IN  IF from = 0 THEN 0
        ELSE Cardinality({k \in from..to : log[k].ev = "exec"})

\* the attempt that started last
Current == Attempts - 1

\* every action of attempt n has been executed and the for loop was left
AttemptOver(n) ==
    /\ AttemptAt(n) > 0
    /\ ~Raised
    /\ (n = Current => pc # "exec")

FailedCount == Cardinality({k \in DOMAIN step_results : ~step_results[k].success})
SucceededCount == Cardinality({k \in DOMAIN step_results : step_results[k].success})

ClassifiedAsTask == initial_response.status # "error" /\ initial_response.type = "task"

\* ------------------------------------------------------------------ claims

\* C1: one task run performs at most 3 attempts; the attempt indices are
\* 0, 1, 2 in increasing order and no fourth round starts.
C1_AtMostThreeAttempts ==
    /\ Attempts <= 3
    /\ retry_count <= 2
    /\ LET A == SelectSeq(log, IsAttempt) IN \A k \in DOMAIN A : A[k].step = k - 1

C1_Witness == pc = "done" /\ Attempts = 3 /\ Execs >= 3

\* C2: after the attempt of index max_retries - 1 no replan request is
\* issued, also when that attempt failed; the loop is left as exhausted and
\* the only model call that follows is the verification.
C2_NoReplanAfterLastAttempt ==
    /\ LET last == AttemptAt(max_retries - 1) IN
          last > 0 => \A k \in (last + 1)..Len(log) : log[k].ev \notin {"replan", "attempt"}
    /\ AttemptOver(max_retries - 1) =>
          /\ pc \in {"verify", "done"}
          /\ exit_reason = "budget"
          /\ (pc = "done" => log[Len(log)].ev = "verify")

C2_Witness ==
    /\ pc = "done"
    /\ exit_reason = "budget"
    /\ OwnFailures(2) > 0
    /\ Verifies = 1

\* C3: an attempt of any index whose own actions all succeeded ends the
\* loop as succeeded: no replan request and no further attempt follow it.
C3_CleanAttemptSucceeds ==
    \A n \in 0..2 :
        AttemptOver(n) /\ OwnExecs(n) >= 1 /\ OwnFailures(n) = 0 =>
            /\ n = Current
            /\ exit_reason = "succeeded"
            /\ pc \in {"verify", "done"}
            /\ \A k \in AttemptAt(n)..Len(log) : log[k].ev # "replan"

\* C4: when no action of attempt 0 failed, no replan request is issued in
\* the run, exactly one attempt is executed, and the model call that follows
\* the last action is the verification call.
C4_CleanFirstAttempt ==
    /\ (Attempts >= 1 /\ OwnFailures(0) = 0 /\ (pc = "exec" => Current > 0)) =>
          /\ Replans = 0
          /\ Attempts = 1
          /\ ModelCalls \in {<< "classify" >>, << "classify", "verify" >>}
    /\ (AttemptOver(0) /\ OwnFailures(0) = 0) =>
          /\ exit_reason = "succeeded"
          /\ pc \in {"verify", "done"}
          /\ (pc = "done" => ModelCalls = << "classify", "verify" >>)

C4_Witness ==
    /\ pc = "done"
    /\ Attempts = 1
    /\ Execs >= 2
    /\ OwnFailures(0) = 0
    /\ ModelCalls = << "classify", "verify" >>

\* C5: a classification reply of type question ends the request with the
\* answer; no action is executed, no replan and no verification call is made.
C5_QuestionNeverActs ==
    /\ (initial_response.type = "question") =>
          /\ Attempts = 0 /\ Execs = 0 /\ Replans = 0 /\ Verifies = 0
          /\ pc = "done"
          /\ (initial_response.status # "error" => result.note = "response")
    /\ result.note = "response" => initial_response.type = "question"

C5_Witness ==
    /\ pc = "done"
    /\ initial_response = [status |-> "absent", type |-> "question"]
    /\ result.note = "response"
    /\ ModelCalls = << "classify" >>

\* C6: within one attempt every action of the active plan is executed
\* exactly once and in plan order whatever failed before it; one result is
\* recorded per action, and the failure records of the attempt are the
\* positions of its failing actions in increasing order.
C6_EveryActionExecutedInOrder ==
    LET n == Current
        own == SelectSeq(SubSeq(log, AttemptAt(n) + 1, Len(log)), IsExec)
        base == Len(step_results) - Len(own)
        nf == OwnFailures(n)
        fs == SubSeq(failed_steps, Len(failed_steps) - nf + 1, Len(failed_steps))
        failing == SelectSeq(own, LAMBDA e : ~e.ok)
    IN  Attempts >= 1 =>
          \* the executed steps are 1, 2, ... in order, one result each
          /\ base >= 0
          /\ \A k \in DOMAIN own :
                /\ own[k].step = k
                /\ step_results[base + k].action = actions_to_execute[k].action
                /\ step_results[base + k].success = own[k].ok
          \* the failure records of the attempt are its failing positions
          /\ Len(failed_steps) >= nf
          /\ \A k \in DOMAIN fs : fs[k].step = failing[k].step
          \* the for loop is left only after the last action of the plan
          /\ (pc # "exec" =>
                \A k \in DOMAIN actions_to_execute :
                    actions_to_execute[k].object => k <= Len(own))

\* C7: a task reply with an empty actions list is a classification error:
\* no attempt runs over zero actions and an empty plan is never reported
\* as all steps completed.
C7_EmptyPlanIsAnError ==
    /\ (pc = "exec" => actions_to_execute # << >>)
    /\ (exit_reason = "succeeded" => step_results # << >>)

\* C8: for every request classified as a task the verification call is
\* issued exactly once, after the loop has ended and after the last
\* executed action.
C8_VerifiedExactlyOnce ==
    /\ Verifies <= 1
    /\ \A k \in DOMAIN log : log[k].ev = "verify" => k = Len(log) /\ pc = "done"
    /\ (pc = "done" /\ ClassifiedAsTask) => Verifies = 1

\* C9: when every attempt records a failure and every plan is a valid task
\* plan, the run executes 3 attempts, issues 2 replan requests, is left as
\* exhausted, verifies once, and the summary shows 2 retry attempts and a
\* failed count of at least 1.
C9_AllAttemptsFail ==
    (/\ pc = "done"
     /\ Attempts >= 1
     /\ ~Raised
     /\ exit_reason # "replan_failed"
     /\ \A n \in 0..(Attempts - 1) : OwnFailures(n) >= 1)
    => /\ Attempts = 3
       /\ Replans = 2
       /\ exit_reason = "budget"
       /\ Verifies = 1
       /\ retry_count = 2
       /\ FailedCount >= 1

C9_Witness ==
    /\ pc = "done"
    /\ Attempts = 3
    /\ \A n \in 0..2 : OwnFailures(n) >= 1
    /\ Verifies = 1
    /\ Len(actions) = 1

\* C10: when the first model call does not classify the request (no
\* parseable JSON, no model, an error-shaped reply, a type that is neither
\* question nor task) the request ends with an error; no action is executed,
\* no replan and no verification call is made and no exception reaches the
\* host loop.
ClassificationFailed ==
    /\ pc = "done"
    /\ result.type # "abandoned"
    /\ \/ initial_response.status = "error"
       \/ initial_response.type \notin {"question", "task"}

C10_FailedClassificationAborts ==
    /\ ClassificationFailed =>
          /\ result.type = "error"
          /\ Attempts = 0 /\ Execs = 0 /\ Replans = 0 /\ Verifies = 0
          /\ ~Raised
    /\ (pc \notin {"idle", "classify"} /\ Attempts >= 1) => ClassifiedAsTask

C10_Witness ==
    /\ pc = "done"
    /\ initial_response = [status |-> "error", type |-> "task"]
    /\ result = [type |-> "error", note |-> "Failed to process request"]
    /\ ModelCalls = << "classify" >>

\* C11: a recovery call whose reply is not a usable plan of a task (no JSON,
\* error-shaped, or a type other than task) ends the loop at once: no attempt
\* and no recovery call follows it, whatever is left of the retry budget, and
\* the request still goes through the verification call to its result.
C11_FailedReplanExhausts ==
    \A k \in DOMAIN log :
        (log[k].ev = "replan" /\ ~log[k].ok) =>
            /\ exit_reason = "replan_failed"
            /\ pc \in {"verify", "done"}
            /\ \A j \in (k + 1)..Len(log) :
                   log[j].ev \notin {"attempt", "exec", "replan", "raise"}
            /\ (pc = "done" =>
                   /\ Verifies = 1
                   /\ log[Len(log)].ev = "verify"
                   /\ result.type \in {"summary", "ai_response", "error"})

\* the first recovery call fails with two attempts of the budget left, and
\* the request is verified and done
C11_Witness ==
    /\ pc = "done"
    /\ exit_reason = "replan_failed"
    /\ retry_count = 0
    /\ Replans = 1
    /\ ~log[Len(log) - 2].ok
    /\ Verifies = 1

\* The outcome as the summary reports it: verification.get('completed', False)
\* and verification.get('status', 'unknown').
TaskOutcome ==
    [completed |-> verification.completed = "true",
     status |-> IF verification.status = "absent" THEN "unknown" ELSE verification.status]

\* C12: when no JSON object can be parsed from the verification reply (or
\* the model call fails), the outcome of the run is completed = false with
\* status "failed", and the run ends with its result, not with an exception.
C12_UnparsedVerdictIsFailed ==
    (pc = "done" /\ Verifies = 1 /\ ~log[Len(log)].ok) =>
        /\ ~TaskOutcome.completed
        /\ TaskOutcome.status = "failed"
        /\ result.type \in {"summary", "error"}

\* C13: the status of the final outcome of a task run is one of success,
\* partial and failed, whatever the verification reply was.
C13_StatusInVocabulary ==
    (pc = "done" /\ Verifies = 1) =>
        TaskOutcome.status \in {"success", "partial", "failed"}

\* ------------------------------------------------- send_to_llm taken alone
\* A reply is a sequence of lexical pieces:
\*   "fence_json"    the marker ```json
\*   "fence"         the marker ``` alone
\*   "{", "}"        a brace
\*   "member"        a key with its value, e.g. "type": "task"
\*   "member_fence"  a key whose string value contains ```
\*   "word"          prose
MaxTextLen == 5

Pieces == {"fence_json", "fence", "{", "}", "member", "member_fence", "word"}
Texts == SeqsUpTo(Pieces, MaxTextLen)

\* least and greatest member of a non-empty set of positions
Least(S) == CHOOSE k \in S : \A j \in S : k <= j
Greatest(S) == CHOOSE k \in S : \A j \in S : k >= j

\* re.search(r'```json\s*(.*?)\s*```'): the match opens at the first ```json
\* and the lazy group ends at the first ``` after it, wherever that is.
FenceOpen(t) ==
    LET at == {k \in DOMAIN t : t[k] = "fence_json"}
    IN  IF at = {} THEN 0 ELSE Least(at)

FenceClose(t) ==
    LET from == FenceOpen(t)
        at == {k \in DOMAIN t : k > from /\ t[k] \in {"fence_json", "fence", "member_fence"}}
    IN  IF from = 0 \/ at = {} THEN 0 ELSE Least(at)

\* json_match.group(1); a group that ends inside a string value ends with the
\* piece "cut", the part of the member before the ```
FenceGroup(t) ==
    SubSeq(t, FenceOpen(t) + 1, FenceClose(t) - 1)
        \o (IF t[FenceClose(t)] = "member_fence" THEN << "cut" >> ELSE << >>)

\* re.search(r'\{.*\}', re.DOTALL): greedy, from the first { to the last }
BraceOpen(t) ==
    LET at == {k \in DOMAIN t : t[k] = "{"}
    IN  IF at = {} THEN 0 ELSE Least(at)

BraceClose(t) ==
    LET from == BraceOpen(t)
        at == {k \in DOMAIN t : k > from /\ t[k] = "}"}
    IN  IF from = 0 \/ at = {} THEN 0 ELSE Greatest(at)

BraceGroup(t) == SubSeq(t, BraceOpen(t), BraceClose(t))

\* nesting depth after the first n pieces
RECURSIVE Depth(_, _)
Depth(t, n) ==
    IF n = 0 THEN 0
    ELSE Depth(t, n - 1) + (IF t[n] = "{" THEN 1 ELSE IF t[n] = "}" THEN -1 ELSE 0)

\* json.loads accepts the string and yields a dict: one object, members and
\* nested objects inside it, nothing before or after it
IsJsonObject(t) ==
    /\ Len(t) >= 2
    /\ t[1] = "{"
    /\ \A k \in DOMAIN t : t[k] \in {"{", "}", "member", "member_fence"}
    /\ \A k \in 1..(Len(t) - 1) : Depth(t, k) > 0
    /\ Depth(t, Len(t)) = 0

Parsed(t) == [state |-> "parsed", value |-> t]
\* the except branch: {"status": "error", "actions": []}
ParseError == [state |-> "error", value |-> << >>]

json_loads(t) == IF IsJsonObject(t) THEN Parsed(t) ELSE ParseError

\* the body of send_to_llm from the reply text on
parse_reply(t) ==
    IF FenceClose(t) > 0 THEN json_loads(FenceGroup(t))
    ELSE IF BraceClose(t) > 0 THEN json_loads(BraceGroup(t))
    ELSE ParseError

InitParser ==
    /\ variant \in Variants
    /\ GUI_AVAILABLE = FALSE
    /\ model = "client"
    /\ pc = "idle"
    /\ initial_response = NoResponse
    /\ actions = << >>
    /\ retry_actions = Unbound
    /\ actions_to_execute = << >>
    /\ i = 0
    /\ step_results = << >>
    /\ failed_steps = << >>
    /\ retry_count = 0
    /\ verification = NoVerification
    /\ result = NoResult
    /\ exit_reason = "none"
    /\ log = << >>
    /\ response_text \in Texts
    /\ llm_response = Pending
    /\ action = NoAction
    /\ action_result = NoActionResult
    /\ collaborator = "ok"
    /\ agent = NewAgent
    /\ screenshot_path = "none"
    /\ message_data = NoMessage
    /\ api_key = "env"
    /\ genai_api_key = "env"
    /\ GEMINI_FREE_KEY = "env"
    /\ check_internet = TRUE

\* send_to_llm parses the reply it received.
ParseReply ==
    /\ llm_response = Pending
    /\ llm_response' = parse_reply(response_text)
    /\ UNCHANGED << Config, Run, Messaging, pc, result, log, response_text, action,
                    action_result, collaborator, agent, screenshot_path >>

NextParser == ParseReply

SpecParser == InitParser /\ [][NextParser]_vars

\* the first balanced {...} span of a text (<< >> when there is none)
FirstBalanced(t) ==
    LET from == BraceOpen(t)
        at == {k \in DOMAIN t : k > from /\ Depth(t, k) = Depth(t, from - 1)}
    IN  IF from = 0 \/ at = {} THEN << >> ELSE SubSeq(t, from, Least(at))

\* prose: words and braces that pair up; plain prose: words only
IsPlainProse(t) == \A k \in DOMAIN t : t[k] = "word"
IsProse(t) ==
    /\ \A k \in DOMAIN t : t[k] \in {"word", "{", "}"}
    /\ \A k \in DOMAIN t : Depth(t, k) >= 0
    /\ Depth(t, Len(t)) = 0

\* t is words, then J inside a json fence, then prose
FencedAt(t, a, b) ==
    /\ t[a] = "fence_json"
    /\ t[b] = "fence"
    /\ IsJsonObject(SubSeq(t, a + 1, b - 1))
    /\ IsPlainProse(SubSeq(t, 1, a - 1))
    /\ IsProse(SubSeq(t, b + 1, Len(t)))

\* t is words, then J bare, then prose
BareAt(t, a, b) ==
    /\ IsJsonObject(SubSeq(t, a, b))
    /\ IsPlainProse(SubSeq(t, 1, a - 1))
    /\ IsProse(SubSeq(t, b + 1, Len(t)))

\* C14: a valid JSON object J is parsed to the same object whether it stands
\* inside a json fence or bare, whatever the prose after it (braces
\* included) and also when a string value of J contains a fence marker.
C14_FencedEqualsBare ==
    llm_response # Pending =>
        \A a, b \in DOMAIN response_text :
            /\ (a < b /\ FencedAt(response_text, a, b)) =>
                   llm_response = Parsed(SubSeq(response_text, a + 1, b - 1))
            /\ (a < b /\ BareAt(response_text, a, b)) =>
                   llm_response = Parsed(SubSeq(response_text, a, b))

\* C15: without a json fence the first balanced {...} span is what is
\* parsed: when that span is a valid object the result is that object,
\* whatever follows it.
C15_FirstBalancedSpan ==
    (llm_response # Pending /\ FenceOpen(response_text) = 0
        /\ IsJsonObject(FirstBalanced(response_text))) =>
            llm_response = Parsed(FirstBalanced(response_text))

\* C16: when the contents of the json fence are not valid JSON and the first
\* balanced {...} span of the reply is a valid object, the brace scan is
\* tried after the fence and that object is returned, not a failure.
C16_BothStrategiesTried ==
    (llm_response # Pending /\ FenceClose(response_text) > 0
        /\ response_text[FenceClose(response_text)] = "fence"
        /\ ~IsJsonObject(FenceGroup(response_text))
        /\ IsJsonObject(FirstBalanced(response_text))) =>
            llm_response = Parsed(FirstBalanced(response_text))

\* ---------------------------------------------- execute_action taken alone
\* "launch": a kind the executor does not know; "": no kind given
Kinds == GuiKinds \cup {"screenshot", "terminal", "wait", "focus_window",
                        "find_and_click", "launch", "", "<not_a_string>"}
ParamShapes == {"params", "not_a_mapping", "method_terminal", "method_other"}

InitExec ==
    /\ variant \in Variants
    /\ GUI_AVAILABLE \in BOOLEAN
    /\ model = "client"
    /\ pc = "idle"
    /\ initial_response = NoResponse
    /\ actions = << >>
    /\ retry_actions = Unbound
    /\ actions_to_execute = << >>
    /\ i = 0
    /\ step_results = << >>
    /\ failed_steps = << >>
    /\ retry_count = 0
    /\ verification = NoVerification
    /\ result = NoResult
    /\ exit_reason = "none"
    /\ log = << >>
    /\ response_text = << >>
    /\ llm_response = Pending
    /\ action \in [object : {TRUE}, action : Kinds, parameters : ParamShapes]
    /\ action_result = NoActionResult
    /\ collaborator \in EnvFor(action)
    /\ agent \in {NewAgent, [NewAgent EXCEPT !.last_screenshot = "earlier"]}
    /\ screenshot_path = "none"
    /\ message_data = NoMessage
    /\ api_key = "env"
    /\ genai_api_key = "env"
    /\ GEMINI_FREE_KEY = "env"
    /\ check_internet = TRUE

\* execute_action is called with the action.
ExecuteAction ==
    /\ action_result = NoActionResult
    /\ action_result' = execute_action(variant, GUI_AVAILABLE, action, collaborator)
    /\ agent' = after_action(variant, action, collaborator, agent)
    /\ UNCHANGED << Config, Run, Messaging, pc, result, log, response_text,
                    llm_response, action, collaborator, screenshot_path >>

NextExec == ExecuteAction

SpecExec == InitExec /\ [][NextExec]_vars

\* C17: an action of an unknown kind, and an action of a kind that needs the
\* display-control surface when there is none, is answered with
\* success = false and a message that is not empty.
C17_UnavailableIsExplained ==
    (/\ action_result # NoActionResult
     /\ \/ action.action \in {"launch", ""}
        \/ (action.action \in GuiKinds \cup {"focus_window"} /\ ~GUI_AVAILABLE)) =>
        /\ ~action_result.success
        /\ action_result.message # ""

\* C18: find_and_click is answered with success = false and a message that
\* is not empty, whatever its parameters and with or without the
\* display-control surface.
C18_FindAndClickExplains ==
    (action_result # NoActionResult /\ action.action = "find_and_click") =>
        /\ ~action_result.success
        /\ action_result.message # ""

\* C19: no exception leaves the loop: whatever the entries of the plan, also
\* one that is not an object, every step ends as an action result and the
\* request goes on to the verification call and its result.
C19_NoExceptionEscapes ==
    /\ exit_reason # "exception"
    /\ \A k \in DOMAIN log : log[k].ev # "raise"
    /\ \A k \in DOMAIN actions_to_execute :
           (k <= i /\ ~actions_to_execute[k].object) =>
               (Len(step_results) >= k /\ Len(failed_steps) >= 1)
    /\ (pc = "done" /\ ClassifiedAsTask) => log[Len(log)].ev = "verify"

\* sum of the plan lengths of the attempts among the first n log entries
RECURSIVE PlanLenSum(_)
PlanLenSum(n) ==
    IF n = 0 THEN 0
    ELSE PlanLenSum(n - 1) + (IF log[n].ev = "attempt" THEN log[n].len ELSE 0)

\* recovery calls whose reply was a usable plan
SuccessfulReplans == Cardinality({k \in DOMAIN log : log[k].ev = "replan" /\ log[k].ok})

\* C20: when the summary is printed, the total of actions is the sum of the
\* plan lengths of all attempts executed, succeeded plus failed is the total,
\* and the retry attempts reported are the number of successful recovery
\* calls, which is the number of attempts executed minus 1.
C20_SummaryAccounts ==
    (pc = "done" /\ Verifies = 1) =>
        /\ Len(step_results) = PlanLenSum(Len(log))
        /\ SucceededCount + FailedCount = Len(step_results)
        /\ retry_count = SuccessfulReplans
        /\ retry_count = Attempts - 1

\* three attempts with four actions in all, some succeeded and some failed
C20_Witness ==
    /\ pc = "done"
    /\ Verifies = 1
    /\ Attempts = 3
    /\ Len(step_results) >= 4
    /\ SucceededCount >= 1
    /\ FailedCount >= 2

\* C21: the failure list handed to the recovery call after attempt k holds
\* the failures of attempt k only; records of earlier attempts are not in it.
C21_FailuresOfThisAttemptOnly ==
    pc = "replan" => Len(failed_steps) = OwnFailures(Current)

IsFailure(r) == ~r.success
\* the recorded results with success = false, in order
FailedResults == SelectSeq(step_results, IsFailure)

\* C22: the failure records are, one to one and in order, the recorded
\* results with success = false, and every record carries the step, the kind
\* of the action, the message and the parameters of the action, in every
\* variant of the loop.
C22_FailureRecordsMatchResults ==
    /\ Len(failed_steps) = Len(FailedResults)
    /\ \A k \in DOMAIN failed_steps :
        /\ failed_steps[k].action = FailedResults[k].action
        /\ failed_steps[k].message = FailedResults[k].message
        /\ failed_steps[k].step \in 1..MaxPlanLen
        /\ failed_steps[k].parameters # "<none>"

\* --------------------------------------------------------- process_message
\* Keys: "env" is the key that GEMINI_FREE_KEY holds when it holds one and
\* "new" is another key; the service accepts both and rejects "bad".
KeyValues == {"env", "new", "bad"}
AcceptedKeys == {"env", "new"}

\* A message: a JSON value that is a dict or not, its type, and the key it
\* carries ('key' of update_api_key, 'apiKey' of user_message), if any.
Messages ==
    [shape : {"dict"}, type : {"update_api_key", "user_message", "screenshot_request",
                               "other"},
     key : {"absent"} \cup KeyValues]
    \cup {[shape |-> "other", type |-> "<none>", key |-> "absent"]}

ResponseTypes == {"ai_response", "error", "api_key_update", "screenshot_result"}

\* setup_gemini_api reads the key from the environment, never from a
\* message.  Without one it sets self.model to None and returns; with one it
\* configures the library, builds the client and stores the key, or sets
\* self.model to None when building the client raises.
SetupOutcomes == {"ok", "raised"}
setup_gemini_api(env, outcome, key, configured) ==
    IF env = "absent"
    THEN [model |-> "none", api_key |-> key, genai_api_key |-> configured]
    ELSE IF outcome = "ok"
    THEN [model |-> "client", api_key |-> env, genai_api_key |-> env]
    ELSE [model |-> "none", api_key |-> key, genai_api_key |-> env]

\* validate_api_key configures the library with the key it is given and
\* then makes a test call with it.
validate_api_key(key, configured) ==
    IF key = "absent"
    THEN [valid |-> FALSE, genai_api_key |-> configured]
    ELSE [valid |-> key \in AcceptedKeys, genai_api_key |-> key]

InitMessage ==
    /\ variant = "main"
    /\ GUI_AVAILABLE \in BOOLEAN
    /\ GEMINI_FREE_KEY \in {"absent", "env"}
    /\ \E outcome \in SetupOutcomes :
        LET s == setup_gemini_api(GEMINI_FREE_KEY, outcome, "unset", "unset") IN
        /\ model = s.model
        /\ api_key = s.api_key
        /\ genai_api_key = s.genai_api_key
    /\ check_internet \in BOOLEAN
    /\ pc = "message"
    /\ initial_response = NoResponse
    /\ actions = << >>
    /\ retry_actions = Unbound
    /\ actions_to_execute = << >>
    /\ i = 0
    /\ step_results = << >>
    /\ failed_steps = << >>
    /\ retry_count = 0
    /\ verification = NoVerification
    /\ result = NoResult
    /\ exit_reason = "none"
    /\ log = << >>
    /\ response_text = << >>
    /\ llm_response = Pending
    /\ action = NoAction
    /\ action_result = NoActionResult
    /\ collaborator = "ok"
    /\ agent = NewAgent
    /\ screenshot_path = "none"
    /\ message_data \in Messages

\* ProcessMessage without the branch for an unknown message type
ProcessMessage_NoElseBranch ==
    /\ pc = "message"
    /\ \E shot \in {"", "path"}, outcome \in SetupOutcomes :
        LET reply(t, n) ==
                /\ pc' = "done"
                /\ result' = [type |-> t, note |-> n]
                /\ message_data' = message_data
            handle_user_message ==
                /\ pc' = "idle"
                /\ result' = result
                /\ message_data' = NoMessage
            v == validate_api_key(message_data.key, genai_api_key)
            s == setup_gemini_api(GEMINI_FREE_KEY, outcome, api_key, v.genai_api_key)
        IN
        IF message_data.shape # "dict"
        THEN reply("error", "exception") /\ UNCHANGED << model, api_key, genai_api_key >>
        ELSE IF ~check_internet
        THEN /\ reply("error", "No internet connection available")
             /\ UNCHANGED << model, api_key, genai_api_key >>
        ELSE IF message_data.type = "update_api_key"
        THEN IF v.valid
             THEN /\ reply("api_key_update", "success")
                  /\ model' = s.model
                  /\ api_key' = s.api_key
                  /\ genai_api_key' = s.genai_api_key
             ELSE /\ reply("api_key_update", "Invalid API key")
                  /\ genai_api_key' = v.genai_api_key
                  /\ UNCHANGED << model, api_key >>
        ELSE IF message_data.type = "user_message"
        THEN IF api_key = "unset"
             THEN reply("error", "exception") /\ UNCHANGED << model, api_key, genai_api_key >>
             ELSE IF message_data.key \in {"absent", api_key}
             THEN /\ handle_user_message
                  /\ UNCHANGED << model, api_key, genai_api_key >>
             ELSE IF v.valid
             THEN /\ handle_user_message
                  /\ model' = "client"
                  /\ api_key' = message_data.key
                  /\ genai_api_key' = message_data.key
             ELSE /\ reply("error", "Invalid Gemini API key")
                  /\ genai_api_key' = v.genai_api_key
                  /\ UNCHANGED << model, api_key >>
        ELSE IF message_data.type = "screenshot_request"
        THEN /\ IF shot = "path" THEN reply("screenshot_result", "Screenshot captured")
                ELSE reply("error", "Failed to capture screenshot")
             /\ UNCHANGED << model, api_key, genai_api_key >>
        ELSE /\ pc' = "done"
             /\ UNCHANGED << result, message_data, model, api_key, genai_api_key >>
    /\ UNCHANGED << variant, GUI_AVAILABLE, Units, Run, log, agent, screenshot_path,
                    GEMINI_FREE_KEY, check_internet >>

\* ProcessMessage that handles update_api_key before the connectivity check
ProcessMessage_ChecksInternetLate ==
    /\ pc = "message"
    /\ \E shot \in {"", "path"}, outcome \in SetupOutcomes :
        LET reply(t, n) ==
                /\ pc' = "done"
                /\ result' = [type |-> t, note |-> n]
                /\ message_data' = message_data
            handle_user_message ==
                /\ pc' = "idle"
                /\ result' = result
                /\ message_data' = NoMessage
            v == validate_api_key(message_data.key, genai_api_key)
            s == setup_gemini_api(GEMINI_FREE_KEY, outcome, api_key, v.genai_api_key)
        IN
        IF message_data.shape # "dict"
        THEN reply("error", "exception") /\ UNCHANGED << model, api_key, genai_api_key >>
        ELSE IF message_data.type = "update_api_key"
        THEN IF v.valid
             THEN /\ reply("api_key_update", "success")
                  /\ model' = s.model
                  /\ api_key' = s.api_key
                  /\ genai_api_key' = s.genai_api_key
             ELSE /\ reply("api_key_update", "Invalid API key")
                  /\ genai_api_key' = v.genai_api_key
                  /\ UNCHANGED << model, api_key >>
        ELSE IF ~check_internet
        THEN /\ reply("error", "No internet connection available")
             /\ UNCHANGED << model, api_key, genai_api_key >>
        ELSE IF message_data.type = "user_message"
        THEN IF api_key = "unset"
             THEN reply("error", "exception") /\ UNCHANGED << model, api_key, genai_api_key >>
             ELSE IF message_data.key \in {"absent", api_key}
             THEN /\ handle_user_message
                  /\ UNCHANGED << model, api_key, genai_api_key >>
             ELSE IF v.valid
             THEN /\ handle_user_message
                  /\ model' = "client"
                  /\ api_key' = message_data.key
                  /\ genai_api_key' = message_data.key
             ELSE /\ reply("error", "Invalid Gemini API key")
                  /\ genai_api_key' = v.genai_api_key
                  /\ UNCHANGED << model, api_key >>
        ELSE IF message_data.type = "screenshot_request"
        THEN /\ IF shot = "path" THEN reply("screenshot_result", "Screenshot captured")
                ELSE reply("error", "Failed to capture screenshot")
             /\ UNCHANGED << model, api_key, genai_api_key >>
        ELSE /\ reply("error", "Unknown message type")
             /\ UNCHANGED << model, api_key, genai_api_key >>
    /\ UNCHANGED << variant, GUI_AVAILABLE, Units, Run, log, agent, screenshot_path,
                    GEMINI_FREE_KEY, check_internet >>

\* process_message up to its return or to its call of handle_user_message
\* (which is Request and the actions after it, and is given the content of
\* the message only).  A message that is not a
\* dict, and self.api_key never assigned, raise inside the try.  The stored
\* key is either never assigned or a non-empty key, so the test
\* `not self.api_key and not api_key` raises or is false.
ProcessMessage ==
    /\ pc = "message"
    /\ \E shot \in {"", "path"}, outcome \in SetupOutcomes :
        LET reply(t, n) ==
                /\ pc' = "done"
                /\ result' = [type |-> t, note |-> n]
                /\ message_data' = message_data
            handle_user_message ==
                /\ pc' = "idle"
                /\ result' = result
                /\ message_data' = NoMessage
            v == validate_api_key(message_data.key, genai_api_key)
            s == setup_gemini_api(GEMINI_FREE_KEY, outcome, api_key, v.genai_api_key)
        IN
        IF message_data.shape # "dict"
        THEN reply("error", "exception") /\ UNCHANGED << model, api_key, genai_api_key >>
        ELSE IF ~check_internet
        THEN /\ reply("error", "No internet connection available")
             /\ UNCHANGED << model, api_key, genai_api_key >>
        ELSE IF message_data.type = "update_api_key"
        THEN IF v.valid
             THEN /\ reply("api_key_update", "success")
                  /\ model' = s.model
                  /\ api_key' = s.api_key
                  /\ genai_api_key' = s.genai_api_key
             ELSE /\ reply("api_key_update", "Invalid API key")
                  /\ genai_api_key' = v.genai_api_key
                  /\ UNCHANGED << model, api_key >>
        ELSE IF message_data.type = "user_message"
        THEN IF api_key = "unset"
             THEN reply("error", "exception") /\ UNCHANGED << model, api_key, genai_api_key >>
             ELSE IF message_data.key \in {"absent", api_key}
             THEN /\ handle_user_message
                  /\ UNCHANGED << model, api_key, genai_api_key >>
             ELSE IF v.valid
             THEN /\ handle_user_message
                  /\ model' = "client"
                  /\ api_key' = message_data.key
                  /\ genai_api_key' = message_data.key
             ELSE /\ reply("error", "Invalid Gemini API key")
                  /\ genai_api_key' = v.genai_api_key
                  /\ UNCHANGED << model, api_key >>
        ELSE IF message_data.type = "screenshot_request"
        THEN /\ IF shot = "path" THEN reply("screenshot_result", "Screenshot captured")
                ELSE reply("error", "Failed to capture screenshot")
             /\ UNCHANGED << model, api_key, genai_api_key >>
        ELSE /\ reply("error", "Unknown message type")
             /\ UNCHANGED << model, api_key, genai_api_key >>
    /\ UNCHANGED << variant, GUI_AVAILABLE, Units, Run, log, agent, screenshot_path,
                    GEMINI_FREE_KEY, check_internet >>

\* run() prints the response and reads the next line.
NextMessage ==
    /\ pc = "done"
    /\ pc' = "message"
    /\ message_data' \in Messages
    /\ check_internet' \in BOOLEAN
    /\ initial_response' = NoResponse
    /\ actions' = << >>
    /\ retry_actions' = Unbound
    /\ actions_to_execute' = << >>
    /\ i' = 0
    /\ step_results' = << >>
    /\ failed_steps' = << >>
    /\ retry_count' = 0
    /\ verification' = NoVerification
    /\ result' = NoResult
    /\ exit_reason' = "none"
    /\ log' = << >>
    /\ screenshot_path' = "none"
    /\ UNCHANGED << Config, Units, api_key, genai_api_key, GEMINI_FREE_KEY, agent >>

NextMessaging ==
    \/ ProcessMessage
    \/ Request
    \/ Classify
    \/ BeginAttempt
    \/ ExecuteStep
    \/ EndAttempt
    \/ Replan
    \/ Verify
    \/ NextMessage

SpecMessage == InitMessage /\ [][NextMessaging]_vars

\* C23: in the messaging variant every message gets a response object: an
\* answer, a task outcome, a screenshot or api-key result, or an explicit
\* error object.  No message is left without one and no exception escapes:
\* as long as the response is not there, process_message can go on.
C23_EveryMessageAnswered ==
    /\ pc = "done" => result.type \in ResponseTypes
    /\ pc # "done" => ENABLED NextMessaging

\* an exception raised in the loop has become an error object
C23_Witness ==
    /\ pc = "done"
    /\ message_data = NoMessage
    /\ Raised
    /\ exit_reason = "exception"
    /\ result = [type |-> "error", note |-> "exception"]

\* C24: a terminal action succeeds only when the command returned within the
\* timeout with exit code 0; a command that runs into the timeout gives
\* success = false and a result all the same; the message of a command that
\* returned is stdout when that is not empty, else stderr, cut to at most
\* 200 characters.
C24_TerminalResult ==
    (action_result # NoActionResult /\ action.action = "terminal") =>
        /\ action_result.success =>
               (~collaborator.timeout /\ collaborator.returncode = 0)
        /\ collaborator.timeout => ~action_result.success
        /\ (~collaborator.timeout /\ action.parameters # "not_a_mapping") =>
               /\ action_result.message.len <= 200
               /\ action_result.message.from =
                      (IF collaborator.stdout > 0 THEN "stdout" ELSE "stderr")
               /\ action_result.message.len =
                      (IF collaborator.stdout > 200 THEN 200
                       ELSE IF collaborator.stdout > 0 THEN collaborator.stdout
                       ELSE IF collaborator.stderr > 200 THEN 200
                       ELSE collaborator.stderr)

\* a command that succeeded with more than 200 characters on stdout
C24_Witness ==
    /\ action.action = "terminal"
    /\ action_result # NoActionResult
    /\ action_result.success
    /\ collaborator.stdout > 200
    /\ action_result.message.len = 200

\* C25: the boundary calls are strictly sequential.  Every execution issued
\* has its result recorded before anything else happens, the i-th action of
\* an attempt is issued when exactly i - 1 results of the attempt are there,
\* every step issues one kind of call after at most one capture, and a new
\* request is read only when the previous one has its result.
C25_StrictlySequential ==
    /\ [](Execs = Len(step_results))
    /\ [](pc = "exec" => OwnExecs(Current) = i)
    /\ [][/\ (pc' = "idle" /\ pc # "idle") => (pc = "done" /\ result # NoResult)
          /\ (pc # "done" /\ pc' # "idle") =>
                 /\ Len(log') <= Len(log) + 2
                 /\ SubSeq(log', 1, Len(log)) = log
                 /\ Cardinality({k \in (Len(log) + 1)..Len(log') :
                        log'[k].ev \in {"classify", "replan", "verify", "exec"}}) <= 1]_vars

\* the second action of the second attempt is about to be issued
C25_Witness ==
    /\ pc = "exec"
    /\ retry_count = 1
    /\ i = 1
    /\ Len(actions_to_execute) = 2
    /\ actions_to_execute[2].object
    /\ Len(step_results) >= 2

\* C26: a call of execute_action leaves the plan, execution_history, model
\* and the running flag as they were, for every kind of action, on success
\* and on failure; the most-recent-screenshot reference changes only in a
\* call whose screenshot capture succeeded.
C26_OnlyTheScreenshotReference ==
    [][action_result' # action_result =>
          /\ agent'.running = agent.running
          /\ agent'.execution_history = agent.execution_history
          /\ model' = model
          /\ UNCHANGED << actions, retry_actions, actions_to_execute >>
          /\ (agent'.last_screenshot # agent.last_screenshot =>
                 (action.action = "screenshot" /\ action_result'.success))]_vars

\* a screenshot action has replaced an earlier reference
C26_Witness ==
    /\ variant = "test"
    /\ action.action = "screenshot"
    /\ action_result # NoActionResult
    /\ action_result.success
    /\ agent.last_screenshot = "path"

\* C27: attempt 0 runs the plan of the classification reply and every later
\* attempt runs the plan of the successful recovery call right before it,
\* as a whole: the steps executed in an attempt are steps 1, 2, ... of its own
\* plan and nothing else, and no later attempt starts without such a plan.
C27_PlanOfTheRound ==
    /\ pc = "exec" =>
           actions_to_execute = (IF retry_count = 0 THEN actions ELSE retry_actions)
    /\ \A n \in 0..(max_retries - 1) :
        LET at == AttemptAt(n) IN
        at > 0 =>
            /\ n = 0 => log[at].len = Len(actions)
            /\ n >= 1 =>
                   /\ log[at - 1].ev = "replan"
                   /\ log[at - 1].ok
                   /\ log[at].len = log[at - 1].len
                   /\ retry_actions # Unbound
            /\ n = Current => log[at].len = Len(actions_to_execute)
            /\ OwnExecs(n) <= log[at].len
            /\ \A k \in at..AttemptEnd(n) :
                   log[k].ev = "exec" =>
                       log[k].step = Cardinality({j \in at..k : log[j].ev = "exec"})
            /\ AttemptOver(n) => OwnExecs(n) = log[at].len

\* the third attempt runs a plan that is not the initial one
C27_Witness ==
    /\ pc = "exec"
    /\ retry_count = 2
    /\ i = Len(actions_to_execute)
    /\ Len(actions_to_execute) = 2
    /\ Len(actions) = 1
    /\ actions_to_execute = retry_actions

\* C28: each recovery call and the verification call come right after a
\* capture of their own, which is taken after the last action executed, and
\* a capture is always followed by its call, whether it gave an image or not.
C28_CaptureBeforeEachCall ==
    /\ \A k \in DOMAIN log :
        /\ log[k].ev = "replan" =>
               (/\ k > 2
                /\ log[k - 1].ev = "capture"
                /\ log[k - 2].ev \in {"delay", "attempt"}
                /\ log[k - 2].ev = "attempt" => log[k - 2].len = 0)
        /\ log[k].ev = "verify" =>
               (/\ k > 2
                /\ log[k - 1].ev = "capture"
                /\ log[k - 2].ev \in {"delay", "replan", "attempt"}
                /\ \A j \in k..Len(log) : log[j].ev # "exec")
        /\ (log[k].ev = "capture" /\ k > 1) =>
               (k < Len(log) /\ log[k + 1].ev \in {"replan", "verify"})
    /\ Count("capture") <= 1 + Replans + Verifies
    /\ (Len(log) > 0 /\ log[Len(log)].ev \in {"replan", "verify"}) =>
           screenshot_path \in {"", "path"}

\* a recovery call was issued, and accepted, after a capture that failed
C28_Witness ==
    /\ pc = "loop"
    /\ retry_count = 1
    /\ screenshot_path = ""
    /\ log[Len(log)].ev = "replan"
    /\ log[Len(log)].ok

\* C29: every executed action, successful or failed, is followed at once by
\* one settling delay, so that a delay lies between the end of any action and
\* the next action execution, replan request or verification request.
C29_DelayAfterEveryAction ==
    /\ \A k \in DOMAIN log :
        /\ log[k].ev = "exec" => (k < Len(log) /\ log[k + 1].ev = "delay")
        /\ log[k].ev = "delay" => (k > 1 /\ log[k - 1].ev = "exec")
    /\ \A j, k \in DOMAIN log :
        (j < k /\ log[j].ev = "exec" /\ log[k].ev \in {"exec", "replan", "verify"}) =>
            \E d \in (j + 1)..(k - 1) : log[d].ev = "delay"
    /\ Count("delay") = Execs

\* a failed action was followed by the delay, then by the capture and the
\* recovery call
C29_Witness ==
    \E k \in DOMAIN log :
        /\ k + 3 <= Len(log)
        /\ log[k].ev = "exec" /\ ~log[k].ok
        /\ log[k + 1].ev = "delay"
        /\ log[k + 2].ev = "capture"
        /\ log[k + 3].ev = "replan"

\* C30: a run whose model calls, captures and action executions all return
\* and whose plans are finite goes from the loop to the verification and
\* from there to its end.
C30_RunReachesVerification ==
    /\ (pc = "loop") ~> (pc = "verify")
    /\ (pc = "verify") ~> (pc = "done")

\* the calls that are sent with retry_info: the recovery calls, and no other
CarriesRetryNotice(e) == e.ev = "replan"

C32_ResultFollowsVerdict ==
    (variant = "main" /\ pc = "done" /\ ClassifiedAsTask) =>
        /\ result.type \in {"ai_response", "error"}
        /\ result.type = "ai_response" <=> verification.completed = "true"
        /\ result = IF verification.completed = "true"
                    THEN [type |-> "ai_response", note |-> "Task completed successfully!"]
                    ELSE [type |-> "error",
                          note |-> IF exit_reason = "exception" THEN "exception"
                                   ELSE "Task could not be completed"]

\* the budget was used up with failed steps in every attempt, and the
\* verification reply says completed: the success response is returned
C32_Witness ==
    /\ variant = "main"
    /\ pc = "done"
    /\ exit_reason = "budget"
    /\ Attempts = max_retries
    /\ FailedCount > 0
    /\ verification.completed = "true"
    /\ result.type = "ai_response"

\* C33: in the console variants a request whose initial capture fails is
\* abandoned before the classification: no model call, no action and no
\* verification; in the messaging variant the request is not abandoned and
\* the classification is called without an image.
C33_InitialCaptureFailure ==
    /\ (variant # "main" /\ pc = "classify") => screenshot_path = "path"
    /\ (variant # "main" /\ pc = "done" /\ Len(log) = 1 /\ screenshot_path = "") =>
           result.type = "abandoned"
    /\ result.type = "abandoned" =>
           /\ variant # "main"
           /\ pc = "done"
           /\ log = << Ev("capture") >>
           /\ screenshot_path = ""
           /\ initial_response = NoResponse
           /\ step_results = << >>
           /\ verification = NoVerification
    /\ (variant = "main" /\ Len(log) = 1 /\ screenshot_path = "") =>
           (pc = "classify" /\ log[1].ev = "capture")

\* a console request given up after the capture that failed
C33_Witness ==
    /\ variant \in {"test", "console"}
    /\ result.type = "abandoned"
    /\ screenshot_path = ""

\* C34: whenever an update_api_key message is answered with success, the
\* agent afterwards holds a model client, and that client is configured with
\* the key of the message.
C34_UpdatedKeyIsInstalled ==
    [][(/\ pc = "message"
        /\ message_data.type = "update_api_key"
        /\ result' = [type |-> "api_key_update", note |-> "success"])
       => (model' = "client" /\ genai_api_key' = message_data.key)]_vars

\* C35: a user_message whose apiKey fails validation is answered with an
\* error and changes nothing: the stored key, the model client and the
\* process-wide configuration of the library are as before the message, and
\* neither a classification call nor an action takes place.
C35_RejectedKeyChangesNothing ==
    [][(/\ pc = "message"
        /\ check_internet
        /\ message_data.type = "user_message"
        /\ message_data.key \in KeyValues \ AcceptedKeys)
       => (/\ pc' = "done"
           /\ result'.type = "error"
           /\ log' = log
           /\ UNCHANGED << api_key, model, genai_api_key >>)]_vars

\* C36: when no key was configured at startup, a user_message with a valid
\* apiKey installs that key and a model client and goes on to the
\* classification, and a user_message without a key is answered with the
\* error 'Please configure your API key in settings'.
C36_FirstKeyFromMessage ==
    [][(/\ pc = "message"
        /\ check_internet
        /\ GEMINI_FREE_KEY = "absent"
        /\ api_key = "unset"
        /\ message_data.type = "user_message")
       => (/\ message_data.key \in AcceptedKeys =>
                  (pc' = "idle" /\ api_key' = message_data.key /\ model' = "client")
           /\ message_data.key = "absent" =>
                  result' = [type |-> "error",
                             note |-> "Please configure your API key in settings"])]_vars

\* C37: when the connectivity check fails, a message of any type is answered
\* with the error 'No internet connection available' and nothing else takes
\* place: no key validation, no capture, no model call, no action, and the
\* stored key and the model are as before.
C37_NoInternetNoEffect ==
    [][(pc = "message" /\ message_data.shape = "dict" /\ ~check_internet)
       => (/\ pc' = "done"
           /\ result' = [type |-> "error", note |-> "No internet connection available"]
           /\ log' = log
           /\ UNCHANGED << api_key, model, genai_api_key, agent, screenshot_path, Run >>)]_vars

\* a key update with an accepted key was answered with the connectivity
\* error
C37_Witness ==
    /\ pc = "done"
    /\ ~check_internet
    /\ message_data.type = "update_api_key"
    /\ message_data.key \in AcceptedKeys
    /\ result = [type |-> "error", note |-> "No internet connection available"]
    /\ log = << >>

====
